---- MODULE Spec2Model ----
(***************************************************************************)
(* Model of the cancer image classifier application                        *)
(* (cancer_classification_app.py): the model-file locator, the loader,     *)
(* the image preprocessing and the prediction pipeline, driven by the      *)
(* Streamlit script runs that execute main().                              *)
(***************************************************************************)
EXTENDS Integers, Sequences, FiniteSets, TLC

VARIABLES
    fs,           \* the directory tree under the working directory: path -> "file" | "dir"
    scandir,      \* the order in which the file system enumerates names (os.scandir)
    artifact,     \* what deserializing the located path does: "ok" or the exception it raises
    pc,           \* position of the current script run
    model,        \* self.model
    model_path,   \* self.model_path
    class_names,  \* self.class_names
    notices,      \* messages written with st.error / st.sidebar.* in the current script run
    upload,       \* the uploaded file of the current request
    clicked,      \* whether the "Analyze Image" button was clicked in the current request
    ret,          \* what the call of predict_image in the last step returned or raised
    results,      \* the "Analysis Results" column of the current script run
    exc,          \* the exception that left the current script run uncaught
    infer_out,    \* what model.predict did in the last call of predict_image, if invoked
    predict_calls,\* number of model.predict invocations on the current app object
    find_calls,   \* number of find_model_file calls in the current script run
    load_attempts,\* number of tf.keras.models.load_model calls in the current script run
    served,       \* history: outcomes of the requests of the earlier script runs
    image,        \* argument of the last direct call of preprocess_image
    img_array,    \* what that call returned
    found,        \* what the last direct call of find_model_file returned
    get_call,     \* the call of safe_get: its arguments, position and effects so far
    sort_call     \* the call of sort_list_of_dicts_manual: its arguments and its outcome

vars == <<fs, scandir, artifact, pc, model, model_path, class_names, notices, upload,
          clicked, ret, infer_out, results, exc, predict_calls, find_calls, load_attempts, served,
          image, img_array, found, get_call, sort_call>>

----------------------------------------------------------------------------
(* Bounds of the explored inputs *)

\* deepest path of the explored directory trees
MaxDepth == 2
\* largest number of entries of an explored directory tree
MaxEntries == 3
\* largest side of the explored small images
MaxSide == 2
\* number of explored pixel patterns minus one
MaxSeed == 4
\* resolution of the explored probability vectors: entries are k / ProbScale
ProbScale == 10
\* largest number of script runs explored
MaxRuns == 2
\* largest number of direct predict_image calls on one app object
MaxCalls == 2
MaxRetries == 4
MaxLen == 3

----------------------------------------------------------------------------
(* Python values *)

None == "None"
NoPath == <<>>

----------------------------------------------------------------------------
(* The file system and the locator *)

H5 == "cancer_classification_model.h5"
KERAS == "cancer_classification_model.keras"
OTHER_NAME == "data"
Names == {H5, KERAS, OTHER_NAME}
Kinds == {"file", "dir"}

Parent(p) == SubSeq(p, 1, Len(p) - 1)

\* every path of at most MaxDepth names
PathUniverse == UNION {[1..d -> Names] : d \in 1..MaxDepth}

\* the paths an entry may be added at: inside the root or inside a directory of t
FreeSlots(t) ==
    {p \in PathUniverse :
        /\ p \notin DOMAIN t
        /\ Len(p) > 1 => (Parent(p) \in DOMAIN t /\ t[Parent(p)] = "dir")}

Extend(t, p, k) == [q \in DOMAIN t \cup {p} |-> IF q = p THEN k ELSE t[q]]

\* the directory trees with exactly n entries
RECURSIVE TreesOfSize(_)
TreesOfSize(n) ==
    IF n = 0 THEN {<<>>}
    ELSE UNION {{Extend(t, p, k) : p \in FreeSlots(t), k \in Kinds} : t \in TreesOfSize(n - 1)}

Trees == UNION {TreesOfSize(n) : n \in 0..MaxEntries}

ScanOrders == {s \in [1..Cardinality(Names) -> Names] : \A i, j \in 1..Cardinality(Names) : s[i] = s[j] => i = j}

\* os.path.exists(name): true of any kind of entry, a directory included
os_path_exists(tree, p) == p \in DOMAIN tree

\* the names in directory d, in enumeration order
listdir(tree, d, order) == SelectSeq(order, LAMBDA n : (d \o <<n>>) \in DOMAIN tree)

\* os.path.join(root, name)
os_path_join(root, name) == root \o <<name>>

\* os.walk(top), top-down, not following links: the (root, dirs, files) triples in
\* the order they are generated.  top is relative to the working directory; the
\* root it reports starts with '.'.
RECURSIVE os_walk(_, _, _), walk_dirs(_, _, _, _)
os_walk(tree, top, order) ==
    LET names == listdir(tree, top, order)
        dirs == SelectSeq(names, LAMBDA n : tree[top \o <<n>>] = "dir")
        files == SelectSeq(names, LAMBDA n : tree[top \o <<n>>] # "dir")
    IN  <<[root |-> <<".">> \o top, dirs |-> dirs, files |-> files]>>
            \o walk_dirs(tree, top, dirs, order)
walk_dirs(tree, top, dirs, order) ==
    IF dirs = <<>> THEN <<>>
    ELSE os_walk(tree, top \o <<Head(dirs)>>, order) \o walk_dirs(tree, top, Tail(dirs), order)

InSeq(x, s) == \E i \in 1..Len(s) : s[i] = x

\* for root, dirs, files in os.walk('.'): if name in files: return join(root, name)
RECURSIVE search_walk(_, _)
search_walk(walk, name) ==
    IF walk = <<>> THEN NoPath
    ELSE IF InSeq(name, Head(walk).files) THEN os_path_join(Head(walk).root, name)
    ELSE search_walk(Tail(walk), name)

\* CancerClassifierApp.find_model_file; NoPath is its None
find_model_file(tree, order) ==
    IF os_path_exists(tree, <<H5>>) THEN <<H5>>
    ELSE IF search_walk(os_walk(tree, <<>>, order), H5) # NoPath
         THEN search_walk(os_walk(tree, <<>>, order), H5)
    ELSE IF os_path_exists(tree, <<KERAS>>) THEN <<KERAS>>
    ELSE search_walk(os_walk(tree, <<>>, order), KERAS)

\* the entry of the tree a returned path names ('.' is the working directory)
Entry(p) == IF p # <<>> /\ Head(p) = "." THEN Tail(p) ELSE p

----------------------------------------------------------------------------
(* Images (PIL.Image) and arrays (numpy.ndarray) *)

\* model input side, image.resize((128, 128))
IMG_SIZE == 128
\* divisor of the value normalization, np.array(image) / 255.0
PIXEL_MAX == 255

\* the explored pixel layouts: grayscale, grayscale + alpha, RGB, RGB + alpha
Modes == {"L", "LA", "RGB", "RGBA"}

\* Image.getbands(): the number of channels of a mode
NBands(mode) ==
    CASE mode = "L" -> 1
      [] mode = "LA" -> 2
      [] mode = "RGB" -> 3
      [] mode = "RGBA" -> 4

\* 8-bit sample values the explored images are made of
Levels == <<0, 255, 100, 200>>

\* the sample of pattern seed at column x, row y, band b: pattern 0 is all 0,
\* pattern 1 is all 255, the others vary with the position and the band
Sample(seed, x, y, b) ==
    Levels[((seed + (seed \div 2) * (x + 2 * y + 3 * b)) % Len(Levels)) + 1]

\* a decoded image: px[y][x] is the tuple of the pixel's band values
TestImage(mode, w, h, seed) ==
    [mode |-> mode, size |-> <<w, h>>,
     px |-> [y \in 1..h |-> [x \in 1..w |-> [b \in 1..NBands(mode) |-> Sample(seed, x, y, b)]]]]

\* the corner cases of the sizes up to MaxSide: one pixel, one row, one column, a square
SmallSizes == {1, MaxSide} \X {1, MaxSide}
Sizes == SmallSizes \cup {<<IMG_SIZE, IMG_SIZE>>}
Seeds == 0..MaxSeed

\* the images preprocess_image is explored on
Images == {TestImage(m, sz[1], sz[2], sd) : m \in Modes, sz \in Sizes, sd \in Seeds}

\* the resampling filter Image.resize uses when none is given: the library's
\* default, NEAREST in older releases and an interpolating filter (BICUBIC) in newer
Resamples == {"NEAREST", "INTERPOLATING"}

\* a buggy variant: of an RGBA pixel the first band is dropped, not the alpha
Image_convert_drop_first(im, mode) ==
    [mode |-> mode, size |-> im.size,
     px |-> [y \in 1..im.size[2] |-> [x \in 1..im.size[1] |->
              LET p == im.px[y][x] IN
              CASE im.mode = "L" -> <<p[1], p[1], p[1]>>
                [] im.mode = "LA" -> <<p[1], p[1], p[1]>>
                [] im.mode = "RGBA" -> SubSeq(p, 2, 4)
                [] im.mode = "RGB" -> p]]]

\* Image.convert('RGB'): gray is replicated to the three bands, alpha is dropped
Image_convert(im, mode) ==
    [mode |-> mode, size |-> im.size,
     px |-> [y \in 1..im.size[2] |-> [x \in 1..im.size[1] |->
              LET p == im.px[y][x] IN
              CASE im.mode = "L" -> <<p[1], p[1], p[1]>>
                [] im.mode = "LA" -> <<p[1], p[1], p[1]>>
                [] im.mode = "RGBA" -> SubSeq(p, 1, 3)
                [] im.mode = "RGB" -> p]]]

Min(a, b) == IF a < b THEN a ELSE b

\* the source index (from 1) nearest to the centre of output index i (from 1)
NearestIndex(i, n_in, n_out) == (((2 * (i - 1) + 1) * n_in) \div (2 * n_out)) + 1

\* one resampled pixel.  NEAREST copies the nearest source pixel.  The
\* interpolating filter is abstracted to the rounded mean of the nearest source
\* pixel and its lower-right neighbour, band by band, which stays within 0..255.
ResampledPixel(im, size, resample, x, y) ==
    LET sx == NearestIndex(x, im.size[1], size[1])
        sy == NearestIndex(y, im.size[2], size[2])
        p == im.px[sy][sx]
        q == im.px[Min(sy + 1, im.size[2])][Min(sx + 1, im.size[1])]
    IN  IF resample = "NEAREST" THEN p
        ELSE [b \in 1..Len(p) |-> (p[b] + q[b] + 1) \div 2]

\* a buggy variant: an image that already has the size is resampled all the
\* same, with the interpolating filter
Image_resize_always(im, size, resample) ==
    [mode |-> im.mode, size |-> size,
     px |-> [y \in 1..size[2] |-> [x \in 1..size[1] |->
              ResampledPixel(im, size, "INTERPOLATING", x, y)]]]

\* Image.resize(size): a copy when the image already has the size
Image_resize(im, size, resample) ==
    IF im.size = size THEN im
    ELSE [mode |-> im.mode, size |-> size,
          px |-> [y \in 1..size[2] |-> [x \in 1..size[1] |->
                   ResampledPixel(im, size, resample, x, y)]]]

\* An ndarray: its shape, its elements a (nested, indexed from 1) and the
\* denominator den of its values: the element stored as n is the number n / den.
\* np.array(image): (height, width) for a one-band image, else (height, width, bands)
np_array(im) ==
    IF NBands(im.mode) = 1
    THEN [shape |-> <<im.size[2], im.size[1]>>, den |-> 1,
          a |-> [y \in 1..im.size[2] |-> [x \in 1..im.size[1] |-> im.px[y][x][1]]]]
    ELSE [shape |-> <<im.size[2], im.size[1], NBands(im.mode)>>, den |-> 1, a |-> im.px]

\* arr / d
np_divide(arr, d) == [shape |-> arr.shape, den |-> arr.den * d, a |-> arr.a]

\* np.stack([arr] * 3, axis=-1) of a two-dimensional array
np_stack3(arr) ==
    [shape |-> arr.shape \o <<3>>, den |-> arr.den,
     a |-> [y \in 1..arr.shape[1] |-> [x \in 1..arr.shape[2] |->
              <<arr.a[y][x], arr.a[y][x], arr.a[y][x]>>]]]

\* np.repeat(arr, 3, axis=-1) of an array whose last axis has one element
np_repeat3(arr) ==
    [shape |-> <<arr.shape[1], arr.shape[2], 3>>, den |-> arr.den,
     a |-> [y \in 1..arr.shape[1] |-> [x \in 1..arr.shape[2] |->
              <<arr.a[y][x][1], arr.a[y][x][1], arr.a[y][x][1]>>]]]

\* arr[:, :, :3]
np_first3(arr) ==
    [shape |-> <<arr.shape[1], arr.shape[2], Min(3, arr.shape[3])>>, den |-> arr.den,
     a |-> [y \in 1..arr.shape[1] |-> [x \in 1..arr.shape[2] |->
              SubSeq(arr.a[y][x], 1, Min(3, arr.shape[3]))]]]

\* np.expand_dims(arr, axis=0)
np_expand_dims(arr) == [shape |-> <<1>> \o arr.shape, den |-> arr.den, a |-> <<arr.a>>]

\* lines 91-97 of preprocess_image: a two-dimensional array is stacked three
\* times, a single channel is repeated three times, a fourth channel is cut off
ensure_three_channels(arr) ==
    IF Len(arr.shape) = 2 THEN np_stack3(arr)
    ELSE IF arr.shape[Len(arr.shape)] = 1 THEN np_repeat3(arr)
    ELSE IF arr.shape[Len(arr.shape)] = 4 THEN np_first3(arr)
    ELSE arr

\* a buggy variant: the pixel values are divided by 256
preprocess_image_div256(im, resample) ==
    LET rgb == IF im.mode # "RGB" THEN Image_convert(im, "RGB") ELSE im
        resized == Image_resize(rgb, <<IMG_SIZE, IMG_SIZE>>, resample)
        scaled == np_divide(np_array(resized), PIXEL_MAX + 1)
    IN  np_expand_dims(ensure_three_channels(scaled))

\* a buggy variant: the image is not converted to RGB first
preprocess_image_no_convert(im, resample) ==
    LET resized == Image_resize(im, <<IMG_SIZE, IMG_SIZE>>, resample)
        scaled == np_divide(np_array(resized), PIXEL_MAX)
    IN  np_expand_dims(ensure_three_channels(scaled))

\* CancerClassifierApp.preprocess_image
preprocess_image(im, resample) ==
    LET rgb == IF im.mode # "RGB" THEN Image_convert(im, "RGB") ELSE im
        resized == Image_resize(rgb, <<IMG_SIZE, IMG_SIZE>>, resample)
        scaled == np_divide(np_array(resized), PIXEL_MAX)
    IN  np_expand_dims(ensure_three_channels(scaled))

----------------------------------------------------------------------------
(* The loader *)

\* the exceptions deserialization raises, all subclasses of Exception
LoadErrors == {"OSError", "ValueError"}
Artifacts == {"ok"} \cup LoadErrors

\* except Exception: every exception deserialization raises is caught
ExceptException(e) == e \in LoadErrors

\* a buggy variant: only OSError is caught
load_model_except_oserror(tree, order, art) ==
    LET path == find_model_file(tree, order) IN
    IF path = NoPath
    THEN [model |-> None, model_path |-> NoPath, notices |-> {"error: Model file not found"},
          attempts |-> 0, raised |-> None]
    ELSE IF art = "ok"
    THEN [model |-> "LoadedModel", model_path |-> path,
          notices |-> {"sidebar: Loading model", "sidebar: Model loaded successfully"},
          attempts |-> 1, raised |-> None]
    ELSE IF art = "OSError"
    THEN [model |-> None, model_path |-> path,
          notices |-> {"sidebar: Loading model", "error: Error loading model"},
          attempts |-> 1, raised |-> None]
    ELSE [model |-> None, model_path |-> path, notices |-> {"sidebar: Loading model"},
          attempts |-> 1, raised |-> art]

\* CancerClassifierApp.load_model, run on a fresh object (model and model_path
\* None): the fields it leaves, the messages it writes, the number of
\* deserialization attempts and the exception it lets escape (None: it returns)
load_model(tree, order, art) ==
    LET path == find_model_file(tree, order) IN
    IF path = NoPath
    THEN [model |-> None, model_path |-> NoPath, notices |-> {"error: Model file not found"},
          attempts |-> 0, raised |-> None]
    ELSE IF art = "ok"
    THEN [model |-> "LoadedModel", model_path |-> path,
          notices |-> {"sidebar: Loading model", "sidebar: Model loaded successfully"},
          attempts |-> 1, raised |-> None]
    ELSE IF ExceptException(art)
    THEN [model |-> None, model_path |-> path,
          notices |-> {"sidebar: Loading model", "error: Error loading model"},
          attempts |-> 1, raised |-> None]
    ELSE [model |-> None, model_path |-> path, notices |-> {"sidebar: Loading model"},
          attempts |-> 1, raised |-> art]

----------------------------------------------------------------------------
(* The prediction pipeline *)

\* what a call of model.predict does: it returns a batch of one vector of class
\* probabilities (numerators over ProbScale), or it raises
InferOutcomes ==
    {[exc |-> None, value |-> <<<<a, ProbScale - a>>>>] : a \in 0..ProbScale}
        \cup {[exc |-> "InvalidArgumentError", value |-> <<>>]}

\* model.predict(processed_image): a batch whose items are not of the model's
\* input shape (128, 128, 3) is refused
model_predict(tensor, outcome) ==
    IF tensor.shape[2] = IMG_SIZE /\ tensor.shape[3] = IMG_SIZE /\ tensor.shape[4] = 3
    THEN outcome
    ELSE [exc |-> "ValueError", value |-> <<>>]

\* a buggy variant: the last maximal entry wins
np_argmax_last(v) ==
    CHOOSE i \in 0..(Len(v) - 1) :
        /\ \A j \in 0..(Len(v) - 1) : v[j + 1] <= v[i + 1]
        /\ \A j \in (i + 1)..(Len(v) - 1) : v[j + 1] < v[i + 1]

\* a buggy variant: np.argmin, the index of the first minimal entry
np_argmin(v) ==
    CHOOSE i \in 0..(Len(v) - 1) :
        /\ \A j \in 0..(Len(v) - 1) : v[i + 1] <= v[j + 1]
        /\ \A j \in 0..(i - 1) : v[i + 1] < v[j + 1]

\* np.argmax(v): the index (from 0) of the first maximal entry
np_argmax(v) ==
    CHOOSE i \in 0..(Len(v) - 1) :
        /\ \A j \in 0..(Len(v) - 1) : v[j + 1] <= v[i + 1]
        /\ \A j \in 0..(i - 1) : v[j + 1] < v[i + 1]

\* the values predict_image gives back
NoCall == [tag |-> "no call"]
NoneTriple == [tag |-> "None, None, None"]
Raised(e) == [tag |-> "raised", exc |-> e]
Prediction(c, conf, all) ==
    [tag |-> "prediction", predicted_class |-> c, confidence |-> conf, all_predictions |-> all]

\* what one invocation of model.predict did
Invoked(out) == [tag |-> "invoked", exc |-> out.exc, value |-> out.value]

\* a buggy variant: an exception of model.predict is caught and the
\* "unavailable" result is returned in its place
run_inference_swallow(im, resample, outcome) ==
    LET processed_image == preprocess_image(im, resample)
        out == model_predict(processed_image, outcome)
    IN  IF out.exc # None
        THEN [ret |-> NoneTriple, predicts |-> 1, out |-> Invoked(out),
              sidebar |-> {"sidebar: Input shape"}]
        ELSE LET predictions == out.value
                 predicted_class == np_argmax(predictions[1])
                 confidence == predictions[1][predicted_class + 1]
             IN  [ret |-> Prediction(predicted_class, confidence, predictions[1]),
                  predicts |-> 1, out |-> Invoked(out), sidebar |-> {"sidebar: Input shape"}]

\* lines 109-122 of predict_image: preprocessing, one invocation of
\* model.predict and the decision; an exception of model.predict is not caught
run_inference(im, resample, outcome) ==
    LET processed_image == preprocess_image(im, resample)
        out == model_predict(processed_image, outcome)
    IN  IF out.exc # None
        THEN [ret |-> Raised(out.exc), predicts |-> 1, out |-> Invoked(out),
              sidebar |-> {"sidebar: Input shape"}]
        ELSE LET predictions == out.value
                 predicted_class == np_argmax(predictions[1])
                 confidence == predictions[1][predicted_class + 1]
             IN  [ret |-> Prediction(predicted_class, confidence, predictions[1]),
                  predicts |-> 1, out |-> Invoked(out), sidebar |-> {"sidebar: Input shape"}]

\* a buggy variant: no check that the model was loaded, so that None.predict
\* raises AttributeError after the preprocessing
predict_image_unguarded(mdl, im, resample, outcome) ==
    IF mdl = None
    THEN [ret |-> Raised("AttributeError"), predicts |-> 0, out |-> NoCall,
          sidebar |-> {"sidebar: Input shape"}]
    ELSE run_inference(im, resample, outcome)

\* CancerClassifierApp.predict_image: what it returns or raises, the number of
\* model.predict invocations it makes, what model.predict did and what is
\* written to the sidebar
predict_image(mdl, im, resample, outcome) ==
    IF mdl = None
    THEN [ret |-> NoneTriple, predicts |-> 0, out |-> NoCall, sidebar |-> {}]
    ELSE run_inference(im, resample, outcome)

\* the fields of a CancerClassifierApp
Self(mdl, path, names) == [model |-> mdl, model_path |-> path, class_names |-> names]

\* a buggy variant: a failed inference discards the model handle
predict_image_resets_model(self, r) ==
    IF r.ret.tag = "raised" THEN Self(None, self.model_path, self.class_names) ELSE self

\* the fields of self after a call of predict_image that gave r: no statement
\* of predict_image, or of preprocess_image which it calls, assigns to self
predict_image_self(self, r) == self

\* class_name.upper()
Upper(name) == IF name = "benign" THEN "BENIGN" ELSE "MALIGNANT"

\* CancerClassifierApp.display_confidence_bars: one bar per (class name,
\* confidence) pair of zip(class_names, predictions), the maximal one highlighted
display_confidence_bars(names, predictions) ==
    [i \in 1..Min(Len(names), Len(predictions)) |->
        [name |-> Upper(names[i]), confidence |-> predictions[i],
         highlighted |-> (i - 1 = np_argmax(predictions))]]

\* the "Analysis Results" column
NoResults == [shown |-> "nothing"]
Placeholder == [shown |-> "placeholder"]
ShownPrediction(names, r) ==
    [shown |-> "prediction",
     label |-> IF r.predicted_class = 0 THEN "BENIGN" ELSE "MALIGNANT",
     confidence |-> r.confidence,
     bars |-> display_confidence_bars(names, r.all_predictions)]

\* what the file uploader holds
NoUpload == [kind |-> "none"]
Undecodable == [kind |-> "undecodable"]
Uploaded(im) == [kind |-> "image", image |-> im]

\* a buggy variant: a file that is no image is opened as a blank image
Image_open_lenient(up) ==
    IF up.kind = "undecodable"
    THEN [exc |-> None, image |-> TestImage("RGB", 1, 1, 0)]
    ELSE [exc |-> None, image |-> up.image]

\* Image.open(uploaded_file): the decoded image, or the exception raised for a
\* file that cannot be identified as an image
Image_open(up) ==
    IF up.kind = "undecodable"
    THEN [exc |-> "UnidentifiedImageError", image |-> NoUpload]
    ELSE [exc |-> None, image |-> up.image]

\* the uploads the script runs are explored on: one-pixel and model-size images
\* of every mode, a file that is no image, and no file
Uploads ==
    {NoUpload, Undecodable} \cup {Uploaded(TestImage(m, 1, 1, 2)) : m \in Modes}


----------------------------------------------------------------------------
(* The script runs: main() is executed once per run *)

\* the directory trees the script runs are explored in: no model file, the
\* primary name in the working directory, the alternate name in a subdirectory,
\* and a directory that carries the primary name
LifecycleTrees ==
    {t \in TreesOfSize(0) \cup TreesOfSize(1) \cup TreesOfSize(2) :
        \/ t = <<>>
        \/ DOMAIN t = {<<H5>>}
        \/ (DOMAIN t = {<<OTHER_NAME>>, <<OTHER_NAME, KERAS>>} /\ t[<<OTHER_NAME, KERAS>>] = "file")}

DefaultOrder == CHOOSE s \in ScanOrders : TRUE

\* what a finished script run is remembered by
Summary ==
    [request |-> upload.kind, clicked |-> clicked, outcome |-> results.shown, exc |-> exc,
     model |-> model, model_path |-> model_path,
     finds |-> find_calls, loads |-> load_attempts]

NoApp ==
    /\ pc = "start"
    /\ model = None
    /\ model_path = NoPath
    /\ class_names = <<>>
    /\ notices = {}
    /\ upload = NoUpload
    /\ clicked = FALSE
    /\ ret = NoCall
    /\ infer_out = NoCall
    /\ results = NoResults
    /\ exc = None
    /\ predict_calls = 0
    /\ find_calls = 0
    /\ load_attempts = 0

NoDirectCalls ==
    /\ image = NoUpload
    /\ img_array = NoCall
    /\ found = NoCall
    /\ get_call = NoCall
    /\ sort_call = NoCall

Init ==
    /\ fs \in LifecycleTrees
    /\ scandir = DefaultOrder
    /\ artifact \in Artifacts
    /\ NoApp
    /\ served = <<>>
    /\ NoDirectCalls

\* app = CancerClassifierApp(): __init__ with its call of load_model
Construct ==
    /\ pc = "start"
    /\ LET r == load_model(fs, scandir, artifact) IN
        /\ model' = r.model
        /\ model_path' = r.model_path
        /\ class_names' = <<"benign", "malignant">>
        /\ notices' = r.notices
        /\ find_calls' = find_calls + 1
        /\ load_attempts' = load_attempts + r.attempts
        /\ exc' = r.raised
        /\ pc' = IF r.raised = None THEN "constructed" ELSE "crashed"
    /\ predict_calls' = 0
    /\ ret' = NoCall
    /\ infer_out' = NoCall
    /\ UNCHANGED <<fs, scandir, artifact, upload, clicked, results, served, image, img_array, found, get_call, sort_call>>

\* a call of app.predict_image(image) by any caller of the constructed object
PredictCall ==
    /\ pc = "constructed"
    /\ predict_calls < MaxCalls
    /\ \E im \in {u.image : u \in {v \in Uploads : v.kind = "image"}},
          resample \in Resamples, outcome \in InferOutcomes :
        LET r == predict_image(model, im, resample, outcome) IN
            /\ ret' = r.ret
            /\ infer_out' = r.out
            /\ predict_calls' = predict_calls + r.predicts
            /\ notices' = notices \cup r.sidebar
            /\ LET self == predict_image_self(Self(model, model_path, class_names), r) IN
                  /\ model' = self.model
                  /\ model_path' = self.model_path
                  /\ class_names' = self.class_names
    /\ UNCHANGED <<fs, scandir, artifact, pc, upload, clicked,
                   results, exc, find_calls, load_attempts, served, image, img_array, found, get_call, sort_call>>

\* st.button("Analyze Image", disabled=self.model is None): a disabled button
\* is never reported as clicked
st_button(click, disabled) == click /\ ~disabled

\* the status line of the sidebar
ModelStatus(mdl) ==
    IF mdl = None THEN "sidebar: Model not loaded" ELSE "sidebar: Model ready for predictions"

\* app.run(): one pass over the page with the uploader holding up and the
\* button clicked or not
Run ==
    /\ pc = "constructed"
    /\ \E up \in Uploads, click \in BOOLEAN, resample \in Resamples, outcome \in InferOutcomes :
        /\ upload' = up
        /\ clicked' = click
        /\ IF up.kind = "none"
           THEN \* the placeholder of the results column, then the footer
                /\ results' = Placeholder
                /\ notices' = notices \cup {ModelStatus(model), "footer"}
                /\ ret' = NoCall
                /\ infer_out' = NoCall
                /\ UNCHANGED <<predict_calls, exc>>
                /\ UNCHANGED <<model, model_path, class_names>>
                /\ pc' = "done"
           ELSE IF Image_open(up).exc # None
           THEN \* Image.open raises and nothing in run() or main() catches it
                /\ results' = NoResults
                /\ notices' = notices \cup {ModelStatus(model)}
                /\ exc' = Image_open(up).exc
                /\ ret' = NoCall
                /\ infer_out' = NoCall
                /\ UNCHANGED predict_calls
                /\ UNCHANGED <<model, model_path, class_names>>
                /\ pc' = "crashed"
           ELSE IF ~st_button(click, model = None)
           THEN /\ results' = NoResults
                /\ notices' = notices \cup {ModelStatus(model), "image information", "footer"}
                /\ ret' = NoCall
                /\ infer_out' = NoCall
                /\ UNCHANGED <<predict_calls, exc>>
                /\ UNCHANGED <<model, model_path, class_names>>
                /\ pc' = "done"
           ELSE LET r == predict_image(model, Image_open(up).image, resample, outcome) IN
                /\ ret' = r.ret
                /\ infer_out' = r.out
                /\ predict_calls' = predict_calls + r.predicts
                /\ LET self == predict_image_self(Self(model, model_path, class_names), r) IN
                      /\ model' = self.model
                      /\ model_path' = self.model_path
                      /\ class_names' = self.class_names
                /\ IF r.ret.tag = "raised"
                   THEN \* the exception leaves predict_image, run() and main()
                        /\ results' = NoResults
                        /\ notices' = notices \cup {ModelStatus(model), "image information"}
                                              \cup r.sidebar
                        /\ exc' = r.ret.exc
                        /\ pc' = "crashed"
                   ELSE /\ results' = IF r.ret.tag = "prediction"
                                      THEN ShownPrediction(class_names, r.ret)
                                      ELSE NoResults
                        /\ notices' = notices \cup {ModelStatus(model), "image information", "footer"}
                                              \cup r.sidebar
                        /\ UNCHANGED exc
                        /\ pc' = "done"
    /\ UNCHANGED <<fs, scandir, artifact, find_calls,
                   load_attempts, served, image, img_array, found, get_call, sort_call>>

\* the next interaction with the page: the script is executed again from the
\* top, whether the last run ended normally or with an uncaught exception
Rerun ==
    /\ pc \in {"done", "crashed"}
    /\ Len(served) + 1 < MaxRuns
    /\ served' = Append(served, Summary)
    /\ pc' = "start"
    /\ model' = None
    /\ model_path' = NoPath
    /\ class_names' = <<>>
    /\ notices' = {}
    /\ upload' = NoUpload
    /\ clicked' = FALSE
    /\ ret' = NoCall
    /\ infer_out' = NoCall
    /\ results' = NoResults
    /\ exc' = None
    /\ predict_calls' = 0
    /\ find_calls' = 0
    /\ load_attempts' = 0
    /\ UNCHANGED <<fs, scandir, artifact, image, img_array, found, get_call, sort_call>>

Next == Construct \/ PredictCall \/ Run \/ Rerun

Spec == Init /\ [][Next]_vars


----------------------------------------------------------------------------
(* The locator on its own: find_model_file in every explored directory tree *)

InitLocator ==
    /\ fs \in Trees
    /\ scandir \in ScanOrders
    /\ artifact = "ok"
    /\ NoApp
    /\ served = <<>>
    /\ NoDirectCalls

\* a call of find_model_file
FindCall ==
    /\ found' = [tag |-> "returned", path |-> find_model_file(fs, scandir)]
    /\ UNCHANGED <<fs, scandir, artifact, pc, model, model_path, class_names, notices, upload,
                   clicked, ret, infer_out, results, exc, predict_calls, find_calls,
                   load_attempts, served, image, img_array, get_call, sort_call>>

NextLocator == FindCall

SpecLocator == InitLocator /\ [][NextLocator]_vars

----------------------------------------------------------------------------
(* The preprocessing on its own: preprocess_image on every explored image *)

InitPreprocess ==
    /\ fs = <<>>
    /\ scandir = DefaultOrder
    /\ artifact = "ok"
    /\ NoApp
    /\ served = <<>>
    /\ NoDirectCalls

\* a call of preprocess_image(image)
PreprocessCall ==
    /\ img_array = NoCall
    /\ \E im \in Images, resample \in Resamples :
        /\ image' = Uploaded(im)
        /\ img_array' = [tag |-> "returned", value |-> preprocess_image(im, resample)]
    /\ UNCHANGED <<fs, scandir, artifact, pc, model, model_path, class_names, notices, upload,
                   clicked, ret, infer_out, results, exc, predict_calls, find_calls,
                   load_attempts, served, found, get_call, sort_call>>

NextPreprocess == PreprocessCall

SpecPreprocess == InitPreprocess /\ [][NextPreprocess]_vars


----------------------------------------------------------------------------
(* The page load with retries: TestLoginPageAIEnhanced.safe_get *)

\* what self.driver.get(url) does: the page is loaded, or an exception is raised
GetOutcomes == {"loaded", "TimeoutException", "WebDriverException", "InvalidArgumentException"}

\* the head of `for attempt in range(max_retries)`: the body runs for attempt,
\* or the loop is exhausted and the function ends without a return statement
for_attempt(attempt, max_retries) == IF attempt < max_retries THEN "try" ELSE "returned"

\* the call safe_get(url, max_retries) up to the first pass of the loop
safe_get_enter(max_retries) ==
    [tag |-> "called", max_retries |-> max_retries, attempt |-> 0,
     pc |-> for_attempt(0, max_retries), result |-> None,
     gets |-> <<>>, sleeps |-> <<>>, warnings |-> <<>>]

\* a buggy variant: the last failed attempt is taken for one that can be
\* retried (attempt < max_retries), so that its exception is dropped
safe_get_iteration_always_continue(c, outcome) ==
    IF outcome = "loaded"
    THEN [tag |-> "called", max_retries |-> c.max_retries, attempt |-> c.attempt,
          pc |-> "returned", result |-> "True",
          gets |-> Append(c.gets, outcome), sleeps |-> Append(c.sleeps, 5),
          warnings |-> c.warnings]
    ELSE [tag |-> "called", max_retries |-> c.max_retries, attempt |-> c.attempt + 1,
          pc |-> for_attempt(c.attempt + 1, c.max_retries), result |-> None,
          gets |-> Append(c.gets, outcome), sleeps |-> Append(c.sleeps, 10),
          warnings |-> Append(c.warnings, c.attempt + 1)]

\* one pass of the loop body, for attempt c.attempt, in which driver.get does
\* outcome: return True after the base wait, or log the failure and then wait
\* and continue, or raise the exception caught
safe_get_iteration(c, outcome) ==
    IF outcome = "loaded"
    THEN [tag |-> "called", max_retries |-> c.max_retries, attempt |-> c.attempt,
          pc |-> "returned", result |-> "True",
          gets |-> Append(c.gets, outcome), sleeps |-> Append(c.sleeps, 5),
          warnings |-> c.warnings]
    ELSE IF c.attempt < c.max_retries - 1
    THEN [tag |-> "called", max_retries |-> c.max_retries, attempt |-> c.attempt + 1,
          pc |-> for_attempt(c.attempt + 1, c.max_retries), result |-> None,
          gets |-> Append(c.gets, outcome), sleeps |-> Append(c.sleeps, 10),
          warnings |-> Append(c.warnings, c.attempt + 1)]
    ELSE [tag |-> "called", max_retries |-> c.max_retries, attempt |-> c.attempt,
          pc |-> "raised", result |-> outcome,
          gets |-> Append(c.gets, outcome), sleeps |-> c.sleeps,
          warnings |-> Append(c.warnings, c.attempt + 1)]

InitSafeGet ==
    /\ fs = <<>>
    /\ scandir = DefaultOrder
    /\ artifact = "ok"
    /\ NoApp
    /\ served = <<>>
    /\ NoDirectCalls

\* a call of safe_get(url, max_retries)
SafeGetCall ==
    /\ get_call = NoCall
    /\ \E max_retries \in 0..MaxRetries : get_call' = safe_get_enter(max_retries)
    /\ UNCHANGED <<fs, scandir, artifact, pc, model, model_path, class_names, notices, upload,
                   clicked, ret, infer_out, results, exc, predict_calls, find_calls,
                   load_attempts, served, image, img_array, found, sort_call>>

\* one pass of the loop of safe_get
SafeGetAttempt ==
    /\ get_call.tag = "called"
    /\ get_call.pc = "try"
    /\ \E outcome \in GetOutcomes : get_call' = safe_get_iteration(get_call, outcome)
    /\ UNCHANGED <<fs, scandir, artifact, pc, model, model_path, class_names, notices, upload,
                   clicked, ret, infer_out, results, exc, predict_calls, find_calls,
                   load_attempts, served, image, img_array, found, sort_call>>

NextSafeGet == SafeGetCall \/ SafeGetAttempt

SpecSafeGet == InitSafeGet /\ [][NextSafeGet]_vars

----------------------------------------------------------------------------
(* The sorting of a list of dictionaries: sort_list_of_dicts_manual *)

\* the values of the dictionaries: integers and strings
IntValue(n) == [type |-> "int", v |-> n]
StrValue(n) == [type |-> "str", v |-> n]

\* the keys of the dictionaries and the values each may carry
Keys == {"age", "name"}
ValuesOf(k) == IF k = "age" THEN {IntValue(1), IntValue(2), StrValue(1)} ELSE {StrValue(1)}

\* the dictionaries: each key is absent or carries one of its values
Dicts == UNION {{d \in [D -> UNION {ValuesOf(k) : k \in Keys}] : \A k \in D : d[k] \in ValuesOf(k)} :
                  D \in SUBSET Keys}

\* the lists of at most MaxLen dictionaries
Lists == UNION {[1..n -> Dicts] : n \in 0..MaxLen}

\* key in item
HasKey(item, key) == key \in DOMAIN item

\* a < b of two values: defined between values of one type only, a TypeError
\* between an integer and a string
Comparable(a, b) == a.type = b.type
Less(a, b) == a.v < b.v

\* the outcomes of a call
Returned(list) == [tag |-> "returned", value |-> list]
RaisedWith(e, arg) == [tag |-> "raised", exc |-> e, arg |-> arg]

\* [i for i, item in enumerate(data) if key not in item]
RECURSIVE missing_keys(_, _, _)
missing_keys(data, key, i) ==
    IF i >= Len(data) THEN <<>>
    ELSE (IF HasKey(data[i + 1], key) THEN <<>> ELSE <<i>>) \o missing_keys(data, key, i + 1)

\* a buggy variant: an item goes before the items of equal key
RECURSIVE insert_before_equal(_, _, _)
insert_before_equal(list, item, key) ==
    IF list = <<>> THEN <<item>>
    ELSE IF Less(list[Len(list)][key], item[key]) THEN Append(list, item)
    ELSE Append(insert_before_equal(SubSeq(list, 1, Len(list) - 1), item, key), list[Len(list)])

\* the place of one more item in a sorted list: after every item whose key is
\* not greater than its own
RECURSIVE insert_sorted(_, _, _)
insert_sorted(list, item, key) ==
    IF list = <<>> THEN <<item>>
    ELSE IF ~Less(item[key], list[Len(list)][key]) THEN Append(list, item)
    ELSE Append(insert_sorted(SubSeq(list, 1, Len(list) - 1), item, key), list[Len(list)])

\* sorted(data, key=lambda x: x[key]): the key of every item is computed
\* first, in order (KeyError at the first item without it); then the items
\* are sorted, which compares values (TypeError when two of them are of
\* different types); the sort is stable and builds a new list
RECURSIVE sort_items(_, _, _)
sort_items(data, key, n) ==
    IF n = 0 THEN <<>> ELSE insert_sorted(sort_items(data, key, n - 1), data[n], key)

sorted_by(data, key) ==
    IF \E i \in 1..Len(data) : ~HasKey(data[i], key)
    THEN RaisedWith("KeyError", [key |-> key])
    ELSE IF \E i, j \in 1..Len(data) : ~Comparable(data[i][key], data[j][key])
    THEN RaisedWith("TypeError", [op |-> "<"])
    ELSE Returned(sort_items(data, key, Len(data)))

\* sort_list_of_dicts_manual(data, key) of Part 2
sort_list_of_dicts_manual(data, key) ==
    IF data = <<>> THEN Returned(<<>>)
    ELSE IF ~(\A i \in 1..Len(data) : HasKey(data[i], key))
    THEN RaisedWith("KeyError", [key |-> key, missing |-> missing_keys(data, key, 0)])
    ELSE LET r == sorted_by(data, key) IN
         IF r.tag = "raised" /\ r.exc = "TypeError"
         THEN RaisedWith("TypeError", [key |-> key])
         ELSE r

\* sort_list_of_dicts_manual(data, key) of Task 1: the one-line version
sort_list_of_dicts_manual_oneline(data, key) == sorted_by(data, key)

InitSort ==
    /\ fs = <<>>
    /\ scandir = DefaultOrder
    /\ artifact = "ok"
    /\ NoApp
    /\ served = <<>>
    /\ NoDirectCalls

\* a call of sort_list_of_dicts_manual(data, key) of Part 2; neither version
\* assigns to data or to an item of it
SortCall ==
    /\ sort_call = NoCall
    /\ \E data \in Lists, key \in Keys :
          sort_call' = [tag |-> "called", version |-> "Part 2", data |-> data, key |-> key,
                        outcome |-> sort_list_of_dicts_manual(data, key), data_after |-> data]
    /\ UNCHANGED <<fs, scandir, artifact, pc, model, model_path, class_names, notices, upload,
                   clicked, ret, infer_out, results, exc, predict_calls, find_calls,
                   load_attempts, served, image, img_array, found, get_call>>

\* a call of sort_list_of_dicts_manual(data, key) of Task 1
SortCallOneLine ==
    /\ sort_call = NoCall
    /\ \E data \in Lists, key \in Keys :
          sort_call' = [tag |-> "called", version |-> "Task 1", data |-> data, key |-> key,
                        outcome |-> sort_list_of_dicts_manual_oneline(data, key),
                        data_after |-> data]
    /\ UNCHANGED <<fs, scandir, artifact, pc, model, model_path, class_names, notices, upload,
                   clicked, ret, infer_out, results, exc, predict_calls, find_calls,
                   load_attempts, served, image, img_array, found, get_call>>

NextSort == SortCall \/ SortCallOneLine

SpecSort == InitSort /\ [][NextSort]_vars

----------------------------------------------------------------------------
(* Properties *)

\* what preprocess_image was called on and what it returned
Arg == image.image
Tensor == img_array.value
Rows == 1..IMG_SIZE

\* the three channels the channel normalization makes of a source pixel
Normalized(mode, p) ==
    CASE mode = "L" -> <<p[1], p[1], p[1]>>
      [] mode = "LA" -> <<p[1], p[1], p[1]>>
      [] mode = "RGB" -> p
      [] mode = "RGBA" -> <<p[1], p[2], p[3]>>

\* C1: when the model was not loaded (self.model is None after the
\* construction), every call of predict_image returns (None, None, None), no
\* call invokes model.predict and no prediction is displayed.
C1_ModelUnavailable ==
    (pc # "start" /\ model = None) =>
        /\ ret.tag \in {"no call", "None, None, None"}
        /\ infer_out = NoCall
        /\ predict_calls = 0
        /\ results.shown # "prediction"

\* C1: predict_image was called on an object without model, in a script run
\* that follows an earlier request, and returned (None, None, None)
C1_Witness ==
    /\ pc = "constructed"
    /\ model = None
    /\ ret = NoneTriple
    /\ served # <<>>

\* C2: a startup failure (no model file found, or deserialization raising)
\* does not end the script run: the construction completes without an
\* exception, self.model stays None and run() comes next.
C2_StartupFailureNotFatal ==
    [][(pc = "start" /\ (find_model_file(fs, scandir) = NoPath \/ artifact # "ok"))
          => (pc' = "constructed" /\ exc' = None /\ model' = None)]_vars

\* C2: run() was executed to its end after deserialization had raised
C2_Witness ==
    /\ pc = "done"
    /\ artifact \in LoadErrors
    /\ model_path # NoPath
    /\ model = None
    /\ "error: Error loading model" \in notices
    /\ "sidebar: Model not loaded" \in notices

\* some regular file of the tree is called name
FileNamed(name) == \E p \in DOMAIN fs : p[Len(p)] = name /\ fs[p] = "file"

\* C3: find_model_file returns None exactly when no file with the primary or
\* the alternate name exists anywhere in the tree; otherwise it returns the
\* path of a file with one of the two names, and one with the alternate name
\* only when no file has the primary name.
C3_LocatorFindsFiles ==
    found.tag = "returned" =>
        /\ (found.path = NoPath) <=> (~FileNamed(H5) /\ ~FileNamed(KERAS))
        /\ found.path # NoPath =>
            /\ Entry(found.path) \in DOMAIN fs
            /\ fs[Entry(found.path)] = "file"
            /\ found.path[Len(found.path)] \in {H5, KERAS}
            /\ found.path[Len(found.path)] = KERAS => ~FileNamed(H5)

\* C4: the predicted class is the index of the first maximal entry of the raw
\* output vector of model.predict (a tie goes to the lower index), the
\* confidence is the entry at that index, and the label displayed is that class.
C4_Decision ==
    ret.tag = "prediction" =>
        LET raw == infer_out.value[1]
            k == ret.predicted_class
        IN  /\ ret.all_predictions = raw
            /\ k \in 0..(Len(raw) - 1)
            /\ \A j \in 1..Len(raw) : raw[j] <= raw[k + 1]
            /\ \A j \in 1..k : raw[j] < raw[k + 1]
            /\ ret.confidence = raw[k + 1]
            /\ results.shown = "prediction" =>
                /\ results.label = (IF k = 0 THEN "BENIGN" ELSE "MALIGNANT")
                /\ results.confidence = raw[k + 1]

\* C4: an exact tie was reported as class 0, benign
C4_Witness ==
    /\ results.shown = "prediction"
    /\ ret.tag = "prediction"
    /\ infer_out.value[1][1] = infer_out.value[1][2]
    /\ ret.predicted_class = 0
    /\ results.label = "BENIGN"

\* the uploaded image has a channel count other than 1, 3 and 4
OddChannels == upload.kind = "image" /\ NBands(upload.image.mode) \notin {1, 3, 4}

\* C5, as claimed: an image whose channel count is not 1, 3 or 4 is rejected;
\* no inference is run on it and no prediction is made for it.
C5_UnsupportedRejected ==
    OddChannels => (infer_out = NoCall /\ ret.tag # "prediction" /\ results.shown # "prediction")

\* C5, amended: an image whose channel count is not 1, 3 or 4 (grayscale with
\* alpha) is not rejected.  When it is analysed with a loaded model, it is
\* preprocessed to a tensor of the model's input shape, model.predict is
\* invoked on it, and the prediction it returns is displayed.
C5_OddChannelsAccepted ==
    (OddChannels /\ st_button(clicked, model = None)) =>
        /\ infer_out.tag = "invoked"
        /\ infer_out.exc # "ValueError"
        /\ predict_calls >= 1
        /\ infer_out.exc = None => (ret.tag = "prediction" /\ results.shown = "prediction")

\* C5: a prediction is displayed for a two-channel image
C5_Witness == OddChannels /\ results.shown = "prediction" /\ pc = "done"

\* C6: the channel normalization yields exactly three channels; those of a
\* grayscale image all equal its single channel, those of an RGBA image are
\* its first three channels, those of an RGB image are its own.  (Read off
\* the returned tensor: for a 128x128 input the resize changes nothing.)
C6_ChannelNormalization ==
    img_array.tag = "returned" =>
        /\ Tensor.shape[Len(Tensor.shape)] = 3
        /\ \A y \in Rows, x \in Rows : Len(Tensor.a[1][y][x]) = 3
        /\ Arg.mode = "L" =>
              \A y \in Rows, x \in Rows :
                  /\ Tensor.a[1][y][x][1] = Tensor.a[1][y][x][2]
                  /\ Tensor.a[1][y][x][2] = Tensor.a[1][y][x][3]
        /\ (Arg.size = <<IMG_SIZE, IMG_SIZE>> /\ Arg.mode \in {"L", "RGB", "RGBA"}) =>
              \A y \in Rows, x \in Rows :
                  Tensor.a[1][y][x] = Normalized(Arg.mode, Arg.px[y][x])

\* C6: preprocess_image returned for a 128x128 RGBA image whose alpha differs
\* from its colour channels
C6_Witness ==
    /\ img_array.tag = "returned"
    /\ Arg.mode = "RGBA"
    /\ Arg.size = <<IMG_SIZE, IMG_SIZE>>
    /\ \E y \in Rows, x \in Rows : Arg.px[y][x][4] # Arg.px[y][x][1]

\* C7: the tensor returned has shape 1 x 128 x 128 x 3 and every entry lies in
\* [0, 1]; where the resize changes nothing (a 128x128 input), the entry of a
\* sample 255 is 1.0 and the entry of a sample 0 is 0.0.
C7_TensorShapeAndRange ==
    img_array.tag = "returned" =>
        /\ Tensor.shape = <<1, IMG_SIZE, IMG_SIZE, 3>>
        /\ Len(Tensor.a) = 1
        /\ Len(Tensor.a[1]) = IMG_SIZE
        /\ Tensor.den > 0
        /\ \A y \in Rows :
              /\ Len(Tensor.a[1][y]) = IMG_SIZE
              /\ \A x \in Rows : \A c \in 1..3 :
                    /\ 0 <= Tensor.a[1][y][x][c]
                    /\ Tensor.a[1][y][x][c] <= Tensor.den
        /\ Arg.size = <<IMG_SIZE, IMG_SIZE>> =>
              \A y \in Rows, x \in Rows : \A c \in 1..3 :
                  LET sample == Normalized(Arg.mode, Arg.px[y][x])[c] IN
                      /\ sample = PIXEL_MAX => Tensor.a[1][y][x][c] = Tensor.den
                      /\ sample = 0 => Tensor.a[1][y][x][c] = 0

\* C7: preprocess_image returned for a 128x128 image that holds a sample 255
\* and a sample 0
C7_Witness ==
    /\ img_array.tag = "returned"
    /\ Arg.size = <<IMG_SIZE, IMG_SIZE>>
    /\ \E y \in Rows, x \in Rows : \E c \in 1..3 : Tensor.a[1][y][x][c] = Tensor.den
    /\ \E y \in Rows, x \in Rows : \E c \in 1..3 : Tensor.a[1][y][x][c] = 0

\* C8: an upload that cannot be decoded ends its script run with the decoder's
\* exception: predict_image is not called and no prediction is displayed; the
\* script runs that follow load the same model from the same path.
C8_InvalidImage ==
    /\ upload.kind = "undecodable" =>
          /\ pc = "crashed"
          /\ exc = "UnidentifiedImageError"
          /\ ret = NoCall
          /\ infer_out = NoCall
          /\ results = NoResults
    /\ \A i \in 1..Len(served) :
          served[i].request = "undecodable" =>
              /\ served[i].outcome = "nothing"
              /\ served[i].exc = "UnidentifiedImageError"
              /\ pc # "start" =>
                    (model = served[i].model /\ model_path = served[i].model_path)

\* C8: a prediction is displayed in a script run that follows one with an
\* undecodable upload
C8_Witness ==
    /\ results.shown = "prediction"
    /\ \E i \in 1..Len(served) :
          served[i].request = "undecodable" /\ served[i].model = "LoadedModel"

\* C9: when model.predict raises inside predict_image, model.predict has been
\* invoked once, the exception leaves predict_image as it is, and, raised in
\* run(), it ends the script run without any prediction displayed.
C9_InferenceFailure ==
    [][(infer_out'.tag = "invoked" /\ infer_out'.exc # None /\ predict_calls' # predict_calls)
          => /\ predict_calls' = predict_calls + 1
             /\ ret' = Raised(infer_out'.exc)
             /\ results'.shown # "prediction"
             /\ pc' # pc => (pc' = "crashed" /\ exc' = infer_out'.exc /\ results' = NoResults)]_vars

\* C9: a script run ended with the exception model.predict raised
C9_Witness ==
    /\ pc = "crashed"
    /\ upload.kind = "image"
    /\ infer_out.tag = "invoked"
    /\ exc = "InvalidArgumentError"
    /\ ret = Raised("InvalidArgumentError")

C11_LoadedOnceAtStartup ==
    /\ pc # "start" =>
          /\ find_calls = 1
          /\ load_attempts <= 1
          /\ model_path = NoPath => load_attempts = 0
          /\ (load_attempts = 1 /\ model = None /\ exc = None) =>
                "error: Error loading model" \in notices
    /\ Len(served) > 0 => (find_calls = 0 /\ load_attempts = 0)

\* C12: after the construction no call of predict_image and no pass of run()
\* changes self.model, self.model_path or self.class_names; every request,
\* after successful and failed ones alike, is served with the model handle
\* and path of the requests before it; and a request starts with nothing of
\* the request before it but what was served.
C12_HandleReadOnly ==
    [][/\ pc = "constructed" =>
             /\ model' = model
             /\ model_path' = model_path
             /\ class_names' = class_names
       /\ pc' \in {"constructed", "done", "crashed"} =>
             \A i \in 1..Len(served') :
                 (served'[i].model = model' /\ served'[i].model_path = model_path')
       /\ (pc # "start" /\ pc' = "start") =>
             /\ ret' = NoCall /\ infer_out' = NoCall /\ results' = NoResults
             /\ upload' = NoUpload /\ clicked' = FALSE /\ exc' = None
             /\ notices' = {} /\ predict_calls' = 0]_vars

\* C12: a request whose inference failed, served by a loaded model in the
\* script run after one that displayed a prediction
C12_Witness ==
    /\ pc = "crashed"
    /\ ret.tag = "raised"
    /\ model = "LoadedModel"
    /\ Len(served) > 0
    /\ served[1].outcome = "prediction"
    /\ served[1].model = "LoadedModel"

\* C13: for a 128x128 image of three channels the resize changes no pixel:
\* the tensor returned is the batch of one array whose entry at (y, x, c) is
\* the sample of the image at (x, y) in band c divided by 255.
C13_ResizeNoOp ==
    (img_array.tag = "returned" /\ Arg.mode = "RGB" /\ Arg.size = <<IMG_SIZE, IMG_SIZE>>) =>
        /\ Tensor.shape = <<1, IMG_SIZE, IMG_SIZE, 3>>
        /\ Tensor.den = PIXEL_MAX
        /\ Len(Tensor.a) = 1
        /\ \A y \in Rows, x \in Rows : \A c \in 1..3 :
              Tensor.a[1][y][x][c] = Arg.px[y][x][c]

\* C13: preprocess_image returned for a 128x128 RGB image whose neighbouring
\* pixels differ
C13_Witness ==
    /\ img_array.tag = "returned"
    /\ Arg.mode = "RGB"
    /\ Arg.size = <<IMG_SIZE, IMG_SIZE>>
    /\ Arg.px[1][1] # Arg.px[2][2]
    /\ Tensor.a[1][1][1] # Tensor.a[1][2][2]

\* C14: a call of safe_get with max_retries >= 1 makes at most max_retries
\* load attempts, none after one that succeeded; it waits 10 seconds after
\* each failed attempt but the last one, and 5 seconds after the successful
\* one; it ends by returning True, right after the first attempt that
\* succeeded, or by raising the exception of attempt max_retries when all
\* attempts failed, and in no other way.
C14_SafeGet ==
    (get_call.tag = "called" /\ get_call.max_retries >= 1) =>
        LET c == get_call
            n == Len(c.gets)
            failed == {i \in 1..n : c.gets[i] # "loaded"}
        IN  /\ n <= c.max_retries
            /\ \A i \in 1..(n - 1) : i \in failed
            /\ c.pc \in {"try", "returned", "raised"}
            /\ c.pc = "try" =>
                  /\ failed = 1..n /\ n < c.max_retries
                  /\ c.sleeps = [i \in 1..n |-> 10]
            /\ c.pc = "returned" =>
                  /\ c.result = "True"
                  /\ n >= 1 /\ c.gets[n] = "loaded"
                  /\ c.sleeps = [i \in 1..n |-> IF i < n THEN 10 ELSE 5]
            /\ c.pc = "raised" =>
                  /\ failed = 1..n /\ n = c.max_retries
                  /\ c.result = c.gets[n]
                  /\ c.sleeps = [i \in 1..(n - 1) |-> 10]
            /\ c.warnings = [i \in 1..Cardinality(failed) |-> i]

\* C14: a call with max_retries = 3 raised the exception of its third attempt,
\* which differs from those of the attempts before
C14_Witness ==
    /\ get_call.tag = "called"
    /\ get_call.max_retries = 3
    /\ get_call.pc = "raised"
    /\ get_call.gets = <<"TimeoutException", "TimeoutException", "WebDriverException">>
    /\ get_call.result = "WebDriverException"

\* the items that lack the key, by index from 0, in increasing order
Lacking(data, key) == {i \in 0..(Len(data) - 1) : key \notin DOMAIN data[i + 1]}

\* list is data rearranged in non-decreasing order of item[key], the items of
\* equal key in their order in data
StablySorted(list, data, key) ==
    /\ Len(list) = Len(data)
    /\ \E p \in [1..Len(data) -> 1..Len(data)] :
          /\ \A i, j \in 1..Len(data) : i # j => p[i] # p[j]
          /\ \A i \in 1..Len(data) : list[i] = data[p[i]]
          /\ \A i, j \in 1..Len(data) :
                i < j => \/ list[i][key].v < list[j][key].v
                         \/ (list[i][key].v = list[j][key].v /\ p[i] < p[j])

\* the values under key cannot all be compared with each other
Incomparable(data, key) ==
    \E i, j \in 1..Len(data) : data[i][key].type # data[j][key].type

\* C15 as stated: a call returns [] for an empty list, raises KeyError with
\* the indices of all items lacking the key when there are any, and otherwise
\* returns data stably sorted by the key; data is left as it was.
C15_SortContract ==
    sort_call.tag = "called" =>
        LET c == sort_call IN
            /\ c.data_after = c.data
            /\ IF c.data = <<>> THEN c.outcome = Returned(<<>>)
               ELSE IF Lacking(c.data, c.key) # {}
               THEN /\ c.outcome.tag = "raised"
                    /\ c.outcome.exc = "KeyError"
                    /\ "missing" \in DOMAIN c.outcome.arg
                    /\ {c.outcome.arg.missing[i] : i \in 1..Len(c.outcome.arg.missing)}
                          = Lacking(c.data, c.key)
               ELSE /\ c.outcome.tag = "returned"
                    /\ StablySorted(c.outcome.value, c.data, c.key)

\* C15 as amended: as stated for the version of Part 2 when the values under
\* the key are of one type; it raises TypeError, naming the key, when every
\* item has the key and two values are of different types.  The one-line
\* version of Task 1 differs in its errors: its KeyError names the key only,
\* and its TypeError is that of the comparison.
C15_SortContractComparable ==
    sort_call.tag = "called" =>
        LET c == sort_call IN
            /\ c.data_after = c.data
            /\ IF c.data = <<>> THEN c.outcome = Returned(<<>>)
               ELSE IF Lacking(c.data, c.key) # {}
               THEN /\ c.outcome.tag = "raised"
                    /\ c.outcome.exc = "KeyError"
                    /\ c.outcome.arg.key = c.key
                    /\ IF c.version = "Part 2"
                       THEN /\ {c.outcome.arg.missing[i] : i \in 1..Len(c.outcome.arg.missing)}
                                  = Lacking(c.data, c.key)
                            /\ \A i, j \in 1..Len(c.outcome.arg.missing) :
                                  i < j => c.outcome.arg.missing[i] < c.outcome.arg.missing[j]
                       ELSE DOMAIN c.outcome.arg = {"key"}
               ELSE IF Incomparable(c.data, c.key)
               THEN /\ c.outcome.tag = "raised"
                    /\ c.outcome.exc = "TypeError"
                    /\ c.version = "Part 2" => c.outcome.arg = [key |-> c.key]
               ELSE /\ c.outcome.tag = "returned"
                    /\ StablySorted(c.outcome.value, c.data, c.key)

\* C15: the version of Part 2 returned a list in another order than data, with
\* two items of equal key in it
C15_Witness ==
    /\ sort_call.tag = "called"
    /\ sort_call.version = "Part 2"
    /\ sort_call.outcome.tag = "returned"
    /\ Len(sort_call.data) = 3
    /\ sort_call.outcome.value # sort_call.data
    /\ \E i, j \in 1..3 :
          /\ i < j
          /\ sort_call.data[i] # sort_call.data[j]
          /\ sort_call.data[i][sort_call.key] = sort_call.data[j][sort_call.key]


====
